---- MODULE Spec2Model ----
(***************************************************************************)
(* A model of backend/routes.py: the device routes of the lost/found       *)
(* device tracker (create, partial update, delete, status update,          *)
(* tracking, text/location search and nearby search).                      *)
(*                                                                         *)
(* Numbers.  Python floats are modelled as fixed-point integers with four  *)
(* decimals: a coordinate of 37.7749 degrees is 377749, a radius of 1 km   *)
(* is 10000, a distance of 1.0118 km is 10118.  +infinity is Inf.          *)
(* An optional value (None or a float) is a sequence: << >> is None and    *)
(* <<v>> is the float v.  JSON null in a request body is the token "null". *)
(* A request body and a query string are functions from the keys that are  *)
(* present to string tokens; a key that is absent is not in the domain.    *)
(***************************************************************************)
EXTENDS Integers, Sequences, FiniteSets, TLC

VARIABLES
    store,    \* the devices table: device id -> row (committed state)
    nextId,   \* the next primary key the table assigns
    clock,    \* datetime.utcnow(), in ticks
    last      \* the request being answered and its response, or Idle

vars == <<store, nextId, clock, last>>

(***************************** bounds **************************************)
MaxDevices == 1
MaxClock == 1
MaxFields == 2
MaxGeoDevices == 2

(************************** Python helpers *********************************)
None == << >>
Some(v) == <<v>>

\* float('inf'), line 12: larger than every distance and radius of the model
Inf == 2000000000

\* dict.get(key, default)
Get(data, key, default) == IF key \in DOMAIN data THEN data[key] ELSE default

\* str.strip() on the strings of the model
Strip(s) ==
    CASE s = " "   -> ""
      [] s = " a " -> "a"
      [] s = " d " -> "d"
      [] s = " t " -> "t"
      [] s = " c " -> "c"
      [] s = " l " -> "l"
      [] s = " x " -> "x"
      [] OTHER     -> s

\* float(s): <<v>> with v in ten-thousandths, or << >> for ValueError/TypeError
Float(s) ==
    CASE s = "0"         -> Some(0)
      [] s = "0.0001"    -> Some(1)
      [] s = "1"         -> Some(10000)
      [] s = "-1"        -> Some(-10000)
      [] s = "inf"       -> Some(Inf)
      [] s = "90"        -> Some(900000)
      [] s = "-90"       -> Some(-900000)
      [] s = "91"        -> Some(910000)
      [] s = "180"       -> Some(1800000)
      [] s = "-180"      -> Some(-1800000)
      [] s = "181"       -> Some(1810000)
      [] s = "37.7749"   -> Some(377749)
      [] s = "37.7840"   -> Some(377840)
      [] s = "-122.4194" -> Some(-1224194)
      [] s = "-122.4195" -> Some(-1224195)
      [] OTHER           -> None

\* truthiness of an optional float: None and 0.0 are falsy
Truthy(x) == x # None /\ x[1] # 0

\* truthiness of an optional string (a query argument): None and "" are falsy
TruthyStr(data, key) == key \in DOMAIN data /\ data[key] # ""

\* round(x, 2): to the nearest hundredth, ties to even; round(inf) is inf
Round2(x) ==
    IF x = Inf THEN Inf
    ELSE LET q == x \div 100
             m == x % 100
         IN  IF m < 50 THEN q * 100
             ELSE IF m > 50 THEN (q + 1) * 100
             ELSE IF q % 2 = 0 THEN q * 100 ELSE (q + 1) * 100

(************************ calculate_distance *******************************)
\* Lines 15-21: the central angle c = 2*asin(sqrt(a)) of the haversine
\* formula, in units of 1e-9 radians, for the coordinates of the model.
HaversineAngle(lat1, lon1, lat2, lon2) ==
    CASE <<lat1, lon1, lat2, lon2>> = <<377749, -1224194, 377749, -1224194>> -> 0
      [] <<lat1, lon1, lat2, lon2>> = <<377749, -1224194, 377840, -1224194>> -> 158824
      [] <<lat1, lon1, lat2, lon2>> = <<377749, -1224195, 377749, -1224194>> -> 1379
      [] <<lat1, lon1, lat2, lon2>> = <<377749, -1224195, 377840, -1224194>> -> 158830
      [] <<lat1, lon1, lat2, lon2>> = <<0, 0, 0, 0>> -> 0
      [] <<lat1, lon1, lat2, lon2>> = <<0, 0, 0, 1>> -> 1745
      [] <<lat1, lon1, lat2, lon2>> = <<0, 0, 1, 0>> -> 1745
      [] <<lat1, lon1, lat2, lon2>> = <<0, 0, 1, 1>> -> 2468
      [] <<lat1, lon1, lat2, lon2>> = <<0, 1, 0, 0>> -> 1745
      [] <<lat1, lon1, lat2, lon2>> = <<0, 1, 0, 1>> -> 0
      [] <<lat1, lon1, lat2, lon2>> = <<0, 1, 1, 0>> -> 2468
      [] <<lat1, lon1, lat2, lon2>> = <<0, 1, 1, 1>> -> 1745
      [] <<lat1, lon1, lat2, lon2>> = <<1, 0, 0, 0>> -> 1745
      [] <<lat1, lon1, lat2, lon2>> = <<1, 0, 0, 1>> -> 2468
      [] <<lat1, lon1, lat2, lon2>> = <<1, 0, 1, 0>> -> 0
      [] <<lat1, lon1, lat2, lon2>> = <<1, 0, 1, 1>> -> 1745
      [] <<lat1, lon1, lat2, lon2>> = <<1, 1, 0, 0>> -> 2468
      [] <<lat1, lon1, lat2, lon2>> = <<1, 1, 0, 1>> -> 1745
      [] <<lat1, lon1, lat2, lon2>> = <<1, 1, 1, 0>> -> 1745
      [] <<lat1, lon1, lat2, lon2>> = <<1, 1, 1, 1>> -> 0

\* Radius of Earth in kilometers, line 24
r == 6371

\* calculate_distance that tells only None from a number
calculate_distanceNoneOnly(lat1, lon1, lat2, lon2) ==
    IF None \in {lat1, lon1, lat2, lon2}
    THEN Inf
    ELSE (HaversineAngle(lat1[1], lon1[1], lat2[1], lon2[1]) * r) \div 100000

\* Lines 9-25; line 11: not all([...]) is true when an argument is None or 0
calculate_distance(lat1, lon1, lat2, lon2) ==
    IF ~(Truthy(lat1) /\ Truthy(lon1) /\ Truthy(lat2) /\ Truthy(lon2))
    THEN Inf
    ELSE (HaversineAngle(lat1[1], lon1[1], lat2[1], lon2[1]) * r) \div 100000

(***************************** models **************************************)
\* The JWT identities that reach the routes; "ghost" has a valid token but
\* no row in the users table.
Identities == {"alice", "bob", "ghost"}

\* User.find_by_username(get_jwt_identity()).id, or None
find_by_username(identity) ==
    CASE identity = "alice" -> Some(1)
      [] identity = "bob"   -> Some(2)
      [] OTHER              -> None

\* Device(...) as constructed on lines 118-127; the table assigns the id and
\* the timestamp when the row is saved
Device(id, user_id, name, description, category, status, location, latitude, longitude, now) ==
    [id |-> id, user_id |-> user_id, name |-> name,
     description |-> description, category |-> category, status |-> status,
     location |-> location, latitude |-> latitude, longitude |-> longitude,
     updated_at |-> now]

\* The rows with the given ids, in primary-key order
RECURSIVE Rows(_)
Rows(ids) ==
    IF ids = {} THEN << >>
    ELSE LET first == CHOOSE i \in ids : \A j \in ids : i <= j
         IN  <<store[first]>> \o Rows(ids \ {first})

\* Device.find_by_user_id(user_id)
find_by_user_id(user_id) ==
    Rows({i \in DOMAIN store : store[i].user_id = user_id})

\* Device.query.filter_by(user_id=...).filter_by(status=...).all()
filter_by_status(user_id, status) ==
    Rows({i \in DOMAIN store : store[i].user_id = user_id /\ store[i].status = status})

\* Device.search_devices(query, user_id): case-insensitive substring match
\* over name, description, category and location, on the strings of the model
Contains(text, q) == q = "a" /\ text = "a"

search_by_text(q, user_id) ==
    Rows({i \in DOMAIN store :
            /\ store[i].user_id = user_id
            /\ \/ Contains(store[i].name, q) \/ Contains(store[i].description, q)
               \/ Contains(store[i].category, q) \/ Contains(store[i].location, q)})

(*************************** responses *************************************)
NoArgs == [k \in {} |-> ""]

Idle == [op |-> "idle", user |-> "", id |-> 0, args |-> NoArgs, code |-> 0,
         msg |-> "", body |-> << >>, loaded |-> << >>]

\* The answer of one request: the handler, the caller, the device id of the
\* URL, the body or query string, the HTTP status and message, the JSON list
\* returned, and the row find_by_id loaded (<< >> when none was).
Resp(op, user, id, args, code, msg, body, loaded) ==
    [op |-> op, user |-> user, id |-> id, args |-> args, code |-> code,
     msg |-> msg, body |-> body, loaded |-> loaded]

\* Access without the ownership check
AccessAnyUser(user, id, forbidden) ==
    IF find_by_username(user) = None
    THEN [code |-> 404, msg |-> "User not found"]
    ELSE IF id \notin DOMAIN store
    THEN [code |-> 404, msg |-> "Device not found"]
    ELSE [code |-> 0, msg |-> ""]

\* Lines 143-154 (and 230-241, 274-284, 363-373, 399-409): resolve the caller,
\* find the device, check ownership.  code 0: the handler goes on.
Access(user, id, forbidden) ==
    IF find_by_username(user) = None
    THEN [code |-> 404, msg |-> "User not found"]
    ELSE IF id \notin DOMAIN store
    THEN [code |-> 404, msg |-> "Device not found"]
    ELSE IF store[id].user_id # find_by_username(user)[1]
    THEN [code |-> 403, msg |-> forbidden]
    ELSE [code |-> 0, msg |-> ""]

\* The row Device.find_by_id(device_id) gave the handler, if it got that far
Loaded(user, id) ==
    IF find_by_username(user) # None /\ id \in DOMAIN store THEN <<store[id]>> ELSE << >>

(************************* field validation ********************************)
\* Coordinate with the two ends of the range left out
CoordinateExclusive(token, bound) ==
    IF token # "null" /\ token # ""
    THEN IF Float(token) = None
         THEN [err |-> "format", value |-> None]
         ELSE IF ~(-bound < Float(token)[1] /\ Float(token)[1] < bound)
         THEN [err |-> "range", value |-> None]
         ELSE [err |-> "", value |-> Float(token)]
    ELSE [err |-> "", value |-> None]

\* Lines 93-101, 103-111, 189-198, 201-210: a coordinate that is provided
\* and non-empty must parse as a float within [-bound, bound]; None and ''
\* mean no coordinate.  err is "" (accepted), "range" or "format".
Coordinate(token, bound) ==
    IF token # "null" /\ token # ""
    THEN IF Float(token) = None
         THEN [err |-> "format", value |-> None]
         ELSE IF ~(-bound <= Float(token)[1] /\ Float(token)[1] <= bound)
         THEN [err |-> "range", value |-> None]
         ELSE [err |-> "", value |-> Float(token)]
    ELSE [err |-> "", value |-> None]

LatBound == 900000
LonBound == 1800000

\* BadStatus that only rejects the empty status
BadStatusEmptyOnly(status) == status = ""

\* Lines 114, 183, 291: status not in ['lost', 'found']
BadStatus(status) == status \notin {"lost", "found"}

(****************************** add_device *********************************)
\* Lines 76-127: the device add_device builds from the body, or the 400 it
\* answers.  code 0: the device goes on to device.save().
NewDevice(data, user_id, id, now) ==
    LET name        == Strip(Get(data, "name", ""))
        description == Strip(Get(data, "description", Get(data, "device_type", "")))
        category    == Strip(Get(data, "category", Get(data, "device_type", "")))
        location    == Strip(Get(data, "location", Get(data, "location_text", "")))
        status      == Get(data, "status", "lost")
        latitude    == Coordinate(Get(data, "latitude", "null"), LatBound)
        longitude   == Coordinate(Get(data, "longitude", "null"), LonBound)
        fail(msg)   == [code |-> 400, msg |-> msg, device |-> << >>]
    IN  IF data = NoArgs \/ Get(data, "name", "") = ""
        THEN fail("Device name is required")
        ELSE IF latitude.err = "range"
        THEN fail("Latitude must be between -90 and 90")
        ELSE IF latitude.err = "format"
        THEN fail("Invalid latitude format")
        ELSE IF longitude.err = "range"
        THEN fail("Longitude must be between -180 and 180")
        ELSE IF longitude.err = "format"
        THEN fail("Invalid longitude format")
        ELSE IF BadStatus(status)
        THEN fail("Status must be 'lost' or 'found'")
        ELSE [code |-> 0, msg |-> "",
              device |-> <<Device(id, user_id, name, description, category, status,
                                  location, latitude.value, longitude.value, now)>>]

\* POST /devices, lines 69-136.  bodies: the request bodies sent; cap: the
\* number of rows the table of the model ever assigns an id to.
add_device(bodies, cap) ==
    /\ last = Idle
    /\ \E user \in Identities, data \in bodies :
        IF find_by_username(user) = None
        THEN /\ last' = Resp("add_device", user, 0, data, 404, "User not found", << >>, << >>)
             /\ UNCHANGED <<store, nextId, clock>>
        ELSE LET new == NewDevice(data, find_by_username(user)[1], nextId, clock)
             IN  IF new.code # 0
                 THEN /\ last' = Resp("add_device", user, 0, data, new.code, new.msg, << >>, << >>)
                      /\ UNCHANGED <<store, nextId, clock>>
                 ELSE \/ /\ nextId <= cap
                         \* device.save() commits the new row
                         /\ store' = [i \in DOMAIN store \cup {nextId} |->
                                        IF i = nextId THEN new.device[1] ELSE store[i]]
                         /\ nextId' = nextId + 1
                         /\ last' = Resp("add_device", user, nextId, data, 201, "", new.device, << >>)
                         /\ UNCHANGED clock
                      \/ \* device.save() fails
                         /\ last' = Resp("add_device", user, 0, data, 500, "Failed to create device", << >>, << >>)
                         /\ UNCHANGED <<store, nextId, clock>>

(***************************** update_device *******************************)
\* The handler's position while it walks the body: the in-memory device it
\* has assigned to so far, and the 400 it has returned (code 0: none yet).
Walk(device) == [device |-> device, code |-> 0, msg |-> ""]
Return400(st, msg) == [st EXCEPT !.code = 400, !.msg = msg]

\* Lines 161-164
SetName(st, data) ==
    IF st.code # 0 \/ "name" \notin DOMAIN data THEN st
    ELSE IF Strip(data["name"]) = ""
    THEN Return400(st, "Device name cannot be empty")
    ELSE [st EXCEPT !.device.name = Strip(data["name"])]

\* Lines 166-167
SetDescription(st, data) ==
    IF st.code # 0 \/ "description" \notin DOMAIN data THEN st
    ELSE [st EXCEPT !.device.description = Strip(data["description"])]

\* SetCategory with device_type written to the description, as add_device
\* defaults it
SetCategoryIntoDescription(st, data) ==
    IF st.code # 0 THEN st
    ELSE LET typed == IF "device_type" \in DOMAIN data
                      THEN [st EXCEPT !.device.description = Strip(data["device_type"])]
                      ELSE st
         IN  IF "category" \in DOMAIN data
             THEN [typed EXCEPT !.device.category = Strip(data["category"])]
             ELSE typed

\* Lines 170-174: device_type first, then category over it
SetCategory(st, data) ==
    IF st.code # 0 THEN st
    ELSE LET typed == IF "device_type" \in DOMAIN data
                      THEN [st EXCEPT !.device.category = Strip(data["device_type"])]
                      ELSE st
         IN  IF "category" \in DOMAIN data
             THEN [typed EXCEPT !.device.category = Strip(data["category"])]
             ELSE typed

\* Lines 177-180: location, else location_text
SetLocation(st, data) ==
    IF st.code # 0 THEN st
    ELSE IF "location" \in DOMAIN data
    THEN [st EXCEPT !.device.location = Strip(data["location"])]
    ELSE IF "location_text" \in DOMAIN data
    THEN [st EXCEPT !.device.location = Strip(data["location_text"])]
    ELSE st

\* Lines 182-185
SetStatus(st, data) ==
    IF st.code # 0 \/ "status" \notin DOMAIN data THEN st
    ELSE IF BadStatus(data["status"])
    THEN Return400(st, "Status must be 'lost' or 'found'")
    ELSE [st EXCEPT !.device.status = data["status"]]

\* Lines 188-198
SetLatitude(st, data) ==
    IF st.code # 0 \/ "latitude" \notin DOMAIN data THEN st
    ELSE LET c == Coordinate(data["latitude"], LatBound)
         IN  IF c.err = "range" THEN Return400(st, "Latitude must be between -90 and 90")
             ELSE IF c.err = "format" THEN Return400(st, "Invalid latitude format")
             ELSE [st EXCEPT !.device.latitude = c.value]

\* Lines 200-210
SetLongitude(st, data) ==
    IF st.code # 0 \/ "longitude" \notin DOMAIN data THEN st
    ELSE LET c == Coordinate(data["longitude"], LonBound)
         IN  IF c.err = "range" THEN Return400(st, "Longitude must be between -180 and 180")
             ELSE IF c.err = "format" THEN Return400(st, "Invalid longitude format")
             ELSE [st EXCEPT !.device.longitude = c.value]

\* Lines 212-213
SetUpdatedAt(st, now) ==
    IF st.code # 0 THEN st ELSE [st EXCEPT !.device.updated_at = now]

\* Lines 160-213, in the handler's order
UpdateFields(device, data, now) ==
    SetUpdatedAt(
      SetLongitude(SetLatitude(SetStatus(SetLocation(SetCategory(
        SetDescription(SetName(Walk(device), data), data), data), data), data), data), data),
      now)

\* Persisted with the request's session committed whatever the handler returned
PersistedDirty(row, st, saved) ==
    IF saved \/ st.code # 0 THEN st.device ELSE row

\* Lines 215-219: device.save() is reached only when no field returned a 400,
\* and only a save that succeeds commits the in-memory device; the request's
\* session, with whatever was assigned before a 400, is discarded.
Persisted(row, st, saved) ==
    IF st.code = 0 /\ saved THEN st.device ELSE row

\* PUT /devices/<id>, lines 140-223
update_device(bodies, ids) ==
    /\ last = Idle
    /\ \E user \in Identities, id \in ids, data \in bodies :
        LET access == Access(user, id, "Unauthorized - you can only update your own devices")
        IN  IF access.code # 0
            THEN /\ last' = Resp("update_device", user, id, data, access.code, access.msg, << >>, Loaded(user, id))
                 /\ UNCHANGED <<store, nextId, clock>>
            ELSE IF data = NoArgs
            THEN /\ last' = Resp("update_device", user, id, data, 400, "No data provided", << >>, Loaded(user, id))
                 /\ UNCHANGED <<store, nextId, clock>>
            ELSE LET st == UpdateFields(store[id], data, clock)
                 IN  \E saved \in (IF st.code = 0 THEN BOOLEAN ELSE {FALSE}) :
                        /\ store' = [store EXCEPT ![id] = Persisted(store[id], st, saved)]
                        /\ last' = IF st.code # 0
                                   THEN Resp("update_device", user, id, data, st.code, st.msg, << >>, Loaded(user, id))
                                   ELSE IF saved
                                   THEN Resp("update_device", user, id, data, 200, "", <<st.device>>, Loaded(user, id))
                                   ELSE Resp("update_device", user, id, data, 500, "Failed to update device", << >>, Loaded(user, id))
                        /\ UNCHANGED <<nextId, clock>>

(***************************** delete_device *******************************)
\* DELETE /devices/<id>, lines 227-251
delete_device(ids) ==
    /\ last = Idle
    /\ \E user \in Identities, id \in ids :
        LET access == Access(user, id, "Unauthorized - you can only delete your own devices")
        IN  IF access.code # 0
            THEN /\ last' = Resp("delete_device", user, id, NoArgs, access.code, access.msg, << >>, Loaded(user, id))
                 /\ UNCHANGED <<store, nextId, clock>>
            ELSE \/ \* device.delete() removes the row
                    /\ store' = [i \in DOMAIN store \ {id} |-> store[i]]
                    /\ last' = Resp("delete_device", user, id, NoArgs, 200, "Device deleted successfully", << >>, Loaded(user, id))
                    /\ UNCHANGED <<nextId, clock>>
                 \/ \* device.delete() fails
                    /\ last' = Resp("delete_device", user, id, NoArgs, 500, "Failed to delete device", << >>, Loaded(user, id))
                    /\ UNCHANGED <<store, nextId, clock>>

(************************** update_device_status ***************************)
\* Device.update_status(new_status): sets the status and the timestamp
update_status(device, new_status, now) ==
    [device EXCEPT !.status = new_status, !.updated_at = now]

\* Lines 286-292: the status the body asks for, or the 400 it gets
NewStatus(data) ==
    IF data = NoArgs \/ "status" \notin DOMAIN data
    THEN [code |-> 400, msg |-> "Status is required"]
    ELSE IF BadStatus(data["status"])
    THEN [code |-> 400, msg |-> "Status must be 'lost' or 'found'"]
    ELSE [code |-> 0, msg |-> ""]

\* PATCH /devices/<id>/status, lines 271-304
update_device_status(bodies, ids) ==
    /\ last = Idle
    /\ \E user \in Identities, id \in ids, data \in bodies :
        LET access == Access(user, id, "Unauthorized")
            new    == NewStatus(data)
        IN  IF access.code # 0
            THEN /\ last' = Resp("update_device_status", user, id, data, access.code, access.msg, << >>, Loaded(user, id))
                 /\ UNCHANGED <<store, nextId, clock>>
            ELSE IF new.code # 0
            THEN /\ last' = Resp("update_device_status", user, id, data, new.code, new.msg, << >>, Loaded(user, id))
                 /\ UNCHANGED <<store, nextId, clock>>
            ELSE \/ /\ store' = [store EXCEPT ![id] = update_status(store[id], data["status"], clock)]
                    /\ last' = Resp("update_device_status", user, id, data, 200, "Device status updated",
                                    <<update_status(store[id], data["status"], clock)>>, Loaded(user, id))
                    /\ UNCHANGED <<nextId, clock>>
                 \/ \* device.update_status() fails
                    /\ last' = Resp("update_device_status", user, id, data, 500, "Failed to update status", << >>, Loaded(user, id))
                    /\ UNCHANGED <<store, nextId, clock>>

(******************************* tracking **********************************)
\* POST /devices/<id>/track, lines 360-392
start_device_tracking(ids) ==
    /\ last = Idle
    /\ \E user \in Identities, id \in ids :
        LET access == Access(user, id, "Unauthorized")
            answer == IF access.code # 0 THEN access
                      ELSE IF store[id].status # "lost"
                      THEN [code |-> 400, msg |-> "Only lost devices can be tracked"]
                      ELSE IF ~Truthy(store[id].latitude) \/ ~Truthy(store[id].longitude)
                      THEN [code |-> 400, msg |-> "Device location required for tracking"]
                      ELSE [code |-> 200, msg |-> "Tracking started successfully"]
        IN  /\ last' = Resp("start_device_tracking", user, id, NoArgs, answer.code, answer.msg,
                            IF answer.code = 200 THEN <<store[id]>> ELSE << >>, Loaded(user, id))
            /\ UNCHANGED <<store, nextId, clock>>

\* DELETE /devices/<id>/track, lines 396-415
stop_device_tracking(ids) ==
    /\ last = Idle
    /\ \E user \in Identities, id \in ids :
        LET access == Access(user, id, "Unauthorized")
        IN  /\ last' = Resp("stop_device_tracking", user, id, NoArgs,
                            IF access.code # 0 THEN access.code ELSE 200,
                            IF access.code # 0 THEN access.msg ELSE "Tracking stopped successfully",
                            << >>, Loaded(user, id))
            /\ UNCHANGED <<store, nextId, clock>>

(**************************** proximity search *****************************)
\* HasLocation that takes every device
HasLocationAlways(device) == TRUE

\* Lines 337, 450: if device.latitude and device.longitude
HasLocation(device) == Truthy(device.latitude) /\ Truthy(device.longitude)

\* Within with the boundary left out
WithinStrict(distance, radius) == distance < radius

\* Lines 339, 452: if distance <= radius
Within(distance, radius) == distance <= radius

\* Lines 336-342, 449-455: the loop over the devices, in their order
RECURSIVE Collect(_, _, _, _)
Collect(devices, lat, lng, radius) ==
    IF devices = << >> THEN << >>
    ELSE LET device   == Head(devices)
             distance == calculate_distance(lat, lng, device.latitude, device.longitude)
             rest     == Collect(Tail(devices), lat, lng, radius)
         IN  IF HasLocation(device) /\ Within(distance, radius)
             THEN <<[device |-> device, distance |-> Round2(distance)]>> \o rest
             ELSE rest

\* list.sort(key=...) is stable: an entry goes after the entries that do not
\* come later than it
RECURSIVE Insert(_, _)
Insert(entry, sorted) ==
    IF sorted = << >> THEN <<entry>>
    ELSE IF Head(sorted).distance <= entry.distance
         THEN <<Head(sorted)>> \o Insert(entry, Tail(sorted))
         ELSE <<entry>> \o sorted

RECURSIVE Sorted(_)
Sorted(entries) ==
    IF entries = << >> THEN << >>
    ELSE Insert(entries[Len(entries)], Sorted(SubSeq(entries, 1, Len(entries) - 1)))

\* SortByDistance that leaves the list in the order of the loop
SortByDistanceSkipped(entries) == entries

\* Lines 345, 458: nearby_devices.sort(key=lambda x: x['distance'])
SortByDistance(entries) == Sorted(entries)

\* Lines 328-330, 435-437: float() of the three arguments; radius is the
\* query argument, or the number the route defaults to
ParseQuery(args, default_radius) ==
    LET lat    == Float(args["lat"])
        lng    == Float(args["lng"])
        radius == IF "radius" \in DOMAIN args THEN Float(args["radius"])
                  ELSE Some(default_radius)
    IN  [ok |-> lat # None /\ lng # None /\ radius # None,
         lat |-> lat, lng |-> lng, radius |-> radius]

\* request.args.get('radius', 5), line 428, and ('radius', 10), line 318
NearbyDefaultRadius == 50000
SearchDefaultRadius == 100000

\* Lines 441-446: the caller's devices, filtered by a status that is given
\* and is one of the two
NearbyCandidates(user_id, args) ==
    IF TruthyStr(args, "status") /\ args["status"] \in {"lost", "found"}
    THEN filter_by_status(user_id, args["status"])
    ELSE find_by_user_id(user_id)

\* GET /devices/nearby, lines 419-463
get_nearby_devices(queries) ==
    /\ last = Idle
    /\ \E user \in Identities, args \in queries :
        /\ last' =
            IF find_by_username(user) = None
            THEN Resp("get_nearby_devices", user, 0, args, 404, "User not found", << >>, << >>)
            ELSE IF ~TruthyStr(args, "lat") \/ ~TruthyStr(args, "lng")
            THEN Resp("get_nearby_devices", user, 0, args, 400, "Latitude and longitude required", << >>, << >>)
            ELSE IF ~ParseQuery(args, NearbyDefaultRadius).ok
            THEN Resp("get_nearby_devices", user, 0, args, 400, "Invalid coordinates", << >>, << >>)
            ELSE LET q == ParseQuery(args, NearbyDefaultRadius)
                 IN  Resp("get_nearby_devices", user, 0, args, 200, "",
                          SortByDistance(Collect(NearbyCandidates(find_by_username(user)[1], args),
                                                 q.lat, q.lng, q.radius[1])),
                          << >>)
        /\ UNCHANGED <<store, nextId, clock>>

\* GET /devices/search, lines 308-356
search_devices(queries) ==
    /\ last = Idle
    /\ \E user \in Identities, args \in queries :
        /\ last' =
            IF find_by_username(user) = None
            THEN Resp("search_devices", user, 0, args, 404, "User not found", << >>, << >>)
            ELSE IF Strip(Get(args, "q", "")) # ""
            THEN Resp("search_devices", user, 0, args, 200, "",
                      search_by_text(Strip(args["q"]), find_by_username(user)[1]), << >>)
            ELSE IF TruthyStr(args, "lat") /\ TruthyStr(args, "lng")
            THEN IF ~ParseQuery(args, SearchDefaultRadius).ok
                 THEN Resp("search_devices", user, 0, args, 400, "Invalid coordinates", << >>, << >>)
                 ELSE LET q == ParseQuery(args, SearchDefaultRadius)
                      IN  Resp("search_devices", user, 0, args, 200, "",
                               SortByDistance(Collect(find_by_user_id(find_by_username(user)[1]),
                                                      q.lat, q.lng, q.radius[1])),
                               << >>)
            ELSE Resp("search_devices", user, 0, args, 400, "Search query or coordinates required", << >>, << >>)
        /\ UNCHANGED <<store, nextId, clock>>

\* A direct call calculate_distance(lat1, lon1, lat2, lon2), lines 9-25: the
\* four arguments are kept in args and the value returned in body
call_calculate_distance(ordinates) ==
    /\ last = Idle
    /\ \E lat1 \in ordinates, lon1 \in ordinates, lat2 \in ordinates, lon2 \in ordinates :
        last' = Resp("calculate_distance", "", 0, <<lat1, lon1, lat2, lon2>>, 0, "",
                     <<calculate_distance(lat1, lon1, lat2, lon2)>>, << >>)
    /\ UNCHANGED <<store, nextId, clock>>

(****************************** environment ********************************)
\* Time passes between two requests
Tick ==
    /\ last = Idle
    /\ clock < MaxClock
    /\ clock' = clock + 1
    /\ UNCHANGED <<store, nextId, last>>

\* The response is sent; the next request can be served
Return ==
    /\ last # Idle
    /\ last' = Idle
    /\ UNCHANGED <<store, nextId, clock>>

Init ==
    /\ store = [i \in {} |-> 0]
    /\ nextId = 1
    /\ clock = 0
    /\ last = Idle

(***************************** request sets ********************************)
\* f with key k set to v
Put(f, k, v) == [x \in DOMAIN f \cup {k} |-> IF x = k THEN v ELSE f[x]]

\* Every body with some of the keys of V present, each with a value of V[k]
RECURSIVE BodiesOver(_, _)
BodiesOver(V, keys) ==
    IF keys = {} THEN {NoArgs}
    ELSE LET k    == CHOOSE x \in keys : TRUE
             rest == BodiesOver(V, keys \ {k})
         IN  rest \cup {Put(f, k, v) : f \in rest, v \in V[k]}

\* Bodies that exercise validation: names, statuses and coordinates, valid
\* and invalid
ValidationBodies ==
    LET V == [name      |-> {"", " ", " a ", "b"},
              status    |-> {"lost", "found", "stolen"},
              latitude  |-> {"null", "abc", "-90", "90", "91"},
              longitude |-> {"", "abc", "180", "181"}]
    IN  BodiesOver(V, DOMAIN V)

StatusBodies ==
    LET V == [status |-> {"lost", "found", "stolen"}]
    IN  BodiesOver(V, DOMAIN V)

\* Bodies that name up to MaxFields of the fields a partial update accepts
FrameBodies ==
    LET V == [name          |-> {" a ", "b"},
              description   |-> {" d "},
              device_type   |-> {" t "},
              category      |-> {" c "},
              location      |-> {" l "},
              location_text |-> {" x "},
              status        |-> {"lost", "found"},
              latitude      |-> {"", "90"},
              longitude     |-> {"", "180"}]
    IN  {f \in BodiesOver(V, DOMAIN V) : Cardinality(DOMAIN f) <= MaxFields}

\* Bodies that place devices on the map
GeoBodies ==
    LET V == [name      |-> {" a "},
              status    |-> {"lost", "found"},
              latitude  |-> {"", "0", "37.7749", "37.7840"},
              longitude |-> {"0", "-122.4194"}]
    IN  BodiesOver(V, DOMAIN V)

\* Bodies that move a device or clear its position
MoveBodies ==
    LET V == [latitude  |-> {"", "0", "37.7749", "37.7840"},
              longitude |-> {"0", "-122.4194"}]
    IN  BodiesOver(V, DOMAIN V)

NearbyQueries ==
    LET V == [lat    |-> {"abc", "0", "37.7749"},
              lng    |-> {"0", "-122.4194", "-122.4195"},
              radius |-> {"abc", "0", "-1", "inf", "1"},
              status |-> {"lost"}]
    IN  BodiesOver(V, DOMAIN V)

SearchQueries ==
    LET V == [q      |-> {"a"},
              lat    |-> {"abc", "37.7749"},
              lng    |-> {"-122.4195"},
              radius |-> {"abc", "0", "1"}]
    IN  BodiesOver(V, DOMAIN V)

\* Bodies that place devices on and next to the equator and the prime
\* meridian
OriginBodies ==
    LET V == [name      |-> {" a "},
              latitude  |-> {"", "0", "0.0001"},
              longitude |-> {"0", "0.0001"}]
    IN  {f \in BodiesOver(V, DOMAIN V) : "name" \in DOMAIN f}

\* Queries from points on and next to the equator and the prime meridian
OriginQueries ==
    LET V == [lat    |-> {"0", "0.0001"},
              lng    |-> {"0", "0.0001"},
              radius |-> {"1", "inf"}]
    IN  BodiesOver(V, DOMAIN V)

\* Arguments of a direct call: None, 0.0, and 0.0001 degrees
Ordinates == {None, Some(0), Some(1)}

(**************************** specifications *******************************)
\* Validation and ownership: one device at a time, every handler that takes
\* a device id
Next ==
    \/ add_device(ValidationBodies, MaxDevices)
    \/ update_device(ValidationBodies, 1..MaxDevices)
    \/ delete_device(1..MaxDevices)
    \/ update_device_status(StatusBodies, 1..MaxDevices)
    \/ start_device_tracking(1..MaxDevices)
    \/ stop_device_tracking(1..MaxDevices)
    \/ Tick
    \/ Return

Spec == Init /\ [][Next]_vars

\* Partial update over every field it accepts
NextFrame ==
    \/ add_device(FrameBodies, MaxDevices)
    \/ update_device(FrameBodies, 1..MaxDevices)
    \/ delete_device(1..MaxDevices)
    \/ Tick
    \/ Return

SpecFrame == Init /\ [][NextFrame]_vars

\* Proximity search over devices that are created, moved and deleted
NextNearby ==
    \/ add_device(GeoBodies, MaxGeoDevices)
    \/ update_device(MoveBodies, 1..MaxGeoDevices)
    \/ delete_device(1..MaxGeoDevices)
    \/ get_nearby_devices(NearbyQueries)
    \/ search_devices(SearchQueries)
    \/ Return

SpecNearby == Init /\ [][NextNearby]_vars

\* The distance function and the proximity searches at zero ordinates
NextOrigin ==
    \/ add_device(OriginBodies, MaxGeoDevices)
    \/ delete_device(1..MaxGeoDevices)
    \/ get_nearby_devices(OriginQueries)
    \/ search_devices(OriginQueries)
    \/ call_calculate_distance(Ordinates)
    \/ Return

SpecOrigin == Init /\ [][NextOrigin]_vars

(******************************* properties ********************************)
\* The caller of the request in `last` is a user, and owns the row it loaded
Resolved(resp) == find_by_username(resp.user) # None
OwnerCall(resp) ==
    /\ Resolved(resp)
    /\ resp.loaded # << >>
    /\ resp.loaded[1].user_id = find_by_username(resp.user)[1]

\* A coordinate token that is provided, non-empty, and unparsable or outside
\* [-bound, bound]
BadCoordinate(data, key, bound) ==
    /\ key \in DOMAIN data
    /\ data[key] \notin {"null", ""}
    /\ \/ Float(data[key]) = None
       \/ Float(data[key])[1] < -bound
       \/ Float(data[key])[1] > bound

\* A body with at least one invalid field present
InvalidField(data) ==
    \/ "name" \in DOMAIN data /\ data["name"] \in {"", " "}
    \/ "status" \in DOMAIN data /\ data["status"] \notin {"lost", "found"}
    \/ BadCoordinate(data, "latitude", 900000)
    \/ BadCoordinate(data, "longitude", 1800000)

\* C1: a partial update by the owner in which some present field is invalid
\* answers 400 and leaves every row of the table, updated_at included, as it
\* was, also when valid fields come before the invalid one.
C1_UpdateAtomic ==
    [][(/\ last'.op = "update_device"
        /\ OwnerCall(last')
        /\ InvalidField(last'.args))
       => (last'.code = 400 /\ store' = store)]_vars

\* C1 witness: a 400 for the status of a body whose valid name would have
\* renamed the device.
C1_Witness ==
    /\ last.op = "update_device"
    /\ last.code = 400
    /\ last.msg = "Status must be 'lost' or 'found'"
    /\ "name" \in DOMAIN last.args
    /\ last.args["name"] \notin {"", " "}
    /\ Strip(last.args["name"]) # last.loaded[1].name
    /\ store[last.id] = last.loaded[1]

DeviceOps ==
    {"update_device", "delete_device", "update_device_status",
     "start_device_tracking", "stop_device_tracking"}

\* C2: on a device id, existence is checked before ownership and both before
\* the body: an id that is not in the table answers 404 for every caller, a
\* user who does not own the device answers 403 and the table is unchanged,
\* and a 400 is only ever answered to the owner of an existing device.
C2_ExistenceThenOwnership ==
    [][last'.op \in DeviceOps =>
        /\ last'.id \notin DOMAIN store => last'.code = 404
        /\ (/\ last'.id \in DOMAIN store
            /\ Resolved(last')
            /\ store[last'.id].user_id # find_by_username(last'.user)[1])
           => (last'.code = 403 /\ store' = store)
        /\ last'.code = 400 =>
             /\ last'.id \in DOMAIN store
             /\ Resolved(last')
             /\ store[last'.id].user_id = find_by_username(last'.user)[1]]_vars

\* C2 witness: a user who is not the owner sends an invalid body and is
\* answered 403.
C2_Witness ==
    /\ last.op = "update_device"
    /\ last.code = 403
    /\ InvalidField(last.args)
    /\ last.id \in DOMAIN store
    /\ store[last.id].user_id # find_by_username(last.user)[1]

\* C6: every stored device has a non-empty name, and a create or partial
\* update whose name is empty, or empty once stripped, is answered 400.
C6_NameNonEmpty ==
    /\ \A i \in DOMAIN store : store[i].name # ""
    /\ (/\ last.op \in {"add_device", "update_device"}
        /\ Resolved(last)
        /\ last.op = "update_device" => OwnerCall(last)
        /\ "name" \in DOMAIN last.args
        /\ last.args["name"] \in {"", " "})
       => last.code = 400

\* C7: every stored status is 'lost' or 'found'; create, partial update and
\* status update answer 400 to any other status; a status update to either
\* value by the owner is accepted, whatever the status was, and the device
\* then has that status.
C7_StatusEnum ==
    /\ \A i \in DOMAIN store : store[i].status \in {"lost", "found"}
    /\ (/\ last.op \in {"add_device", "update_device", "update_device_status"}
        /\ Resolved(last)
        /\ last.op # "add_device" => OwnerCall(last)
        /\ "status" \in DOMAIN last.args
        /\ last.args["status"] \notin {"lost", "found"})
       => last.code = 400
    /\ (/\ last.op = "update_device_status"
        /\ OwnerCall(last)
        /\ "status" \in DOMAIN last.args
        /\ last.args["status"] \in {"lost", "found"})
       => /\ last.code \in {200, 500}
          /\ last.code = 200 => store[last.id].status = last.args["status"]
          /\ last.code = 500 => store[last.id].status = last.loaded[1].status

\* C7 witness: a device that was 'found' is set back to 'lost'.
C7_Witness ==
    /\ last.op = "update_device_status"
    /\ last.code = 200
    /\ last.loaded[1].status = "found"
    /\ last.args["status"] = "lost"
    /\ store[last.id].status = "lost"

\* A create that names a good name and, if any, a good status and longitude
GoodButLatitude(data) ==
    /\ "name" \in DOMAIN data /\ data["name"] \notin {"", " "}
    /\ "status" \in DOMAIN data => data["status"] \in {"lost", "found"}
    /\ ~BadCoordinate(data, "longitude", 1800000)

GoodButLongitude(data) ==
    /\ "name" \in DOMAIN data /\ data["name"] \notin {"", " "}
    /\ "status" \in DOMAIN data => data["status"] \in {"lost", "found"}
    /\ ~BadCoordinate(data, "latitude", 900000)

\* C10: create validates coordinates with inclusive bounds: a latitude that
\* is provided and non-empty must be a number in [-90, 90] and a longitude
\* one in [-180, 180], the ends included; otherwise the create answers 400
\* and the table is unchanged; every stored coordinate is absent or in range.
C10_CoordinateBounds ==
    [][/\ \A i \in DOMAIN store' :
            /\ store'[i].latitude # None =>
                 (-900000 <= store'[i].latitude[1] /\ store'[i].latitude[1] <= 900000)
            /\ store'[i].longitude # None =>
                 (-1800000 <= store'[i].longitude[1] /\ store'[i].longitude[1] <= 1800000)
       /\ (last'.op = "add_device" /\ Resolved(last')) =>
            /\ (BadCoordinate(last'.args, "latitude", 900000)
                \/ BadCoordinate(last'.args, "longitude", 1800000))
               => (last'.code = 400 /\ store' = store)
            /\ (GoodButLatitude(last'.args) /\ GoodButLongitude(last'.args))
               => last'.code \in {201, 500}
            /\ last'.code = 201 =>
                 /\ store'[last'.id].latitude =
                      (IF Get(last'.args, "latitude", "") \in {"null", ""}
                       THEN None ELSE Float(last'.args["latitude"]))
                 /\ store'[last'.id].longitude =
                      (IF Get(last'.args, "longitude", "") \in {"null", ""}
                       THEN None ELSE Float(last'.args["longitude"]))]_vars

\* C10 witness: a create at latitude 90 and longitude 180 is stored.
C10_Witness ==
    /\ last.op = "add_device"
    /\ last.code = 201
    /\ Get(last.args, "latitude", "") = "90"
    /\ Get(last.args, "longitude", "") = "180"
    /\ store[last.id].latitude = Some(900000)
    /\ store[last.id].longitude = Some(1800000)

DeviceFields ==
    {"id", "user_id", "name", "description", "category", "status", "location",
     "latitude", "longitude", "updated_at"}

\* The device fields a body names: its keys, with device_type standing for
\* category and location_text for location
NamedFields(data) ==
    (DOMAIN data \cap DeviceFields)
    \cup (IF "device_type" \in DOMAIN data THEN {"category"} ELSE {})
    \cup (IF "location_text" \in DOMAIN data THEN {"location"} ELSE {})

\* C8: a successful partial update changes only the fields the body names
\* (device_type is written to category, location_text to location) and sets
\* updated_at to the time of the request; id, owner, every other field and
\* every other row keep their values.
C8_UpdateFrame ==
    [][(last'.op = "update_device" /\ last'.code = 200) =>
        /\ DOMAIN store' = DOMAIN store
        /\ \A i \in DOMAIN store \ {last'.id} : store'[i] = store[i]
        /\ \A f \in DeviceFields \ (NamedFields(last'.args) \cup {"updated_at"}) :
              store'[last'.id][f] = store[last'.id][f]
        /\ store'[last'.id].updated_at = clock
        /\ store'[last'.id].id = last'.id
        /\ store'[last'.id].user_id = store[last'.id].user_id
        /\ "name" \in DOMAIN last'.args =>
              store'[last'.id].name = Strip(last'.args["name"])
        /\ "status" \in DOMAIN last'.args =>
              store'[last'.id].status = last'.args["status"]
        /\ ("device_type" \in DOMAIN last'.args /\ "category" \notin DOMAIN last'.args) =>
              store'[last'.id].category = Strip(last'.args["device_type"])
        /\ ("location_text" \in DOMAIN last'.args /\ "location" \notin DOMAIN last'.args) =>
              store'[last'.id].location = Strip(last'.args["location_text"])]_vars

\* C8 witness: an update carrying only {status: 'found'} on a lost device
\* that has a description and a latitude, at a later time than its last
\* change.
C8_Witness ==
    /\ last.op = "update_device"
    /\ last.code = 200
    /\ DOMAIN last.args = {"status"}
    /\ last.args["status"] = "found"
    /\ last.loaded[1].status = "lost"
    /\ last.loaded[1].description # ""
    /\ last.loaded[1].latitude # None
    /\ store[last.id].updated_at > last.loaded[1].updated_at
    /\ store[last.id] = [last.loaded[1] EXCEPT !.status = "found",
                                               !.updated_at = store[last.id].updated_at]

(*************************** proximity claims ******************************)
\* The answer in `last` is a list of nearby devices: a 200 of
\* get_nearby_devices, or of search_devices without a text query
NearbyAnswer ==
    /\ last.code = 200
    /\ \/ last.op = "get_nearby_devices"
       \/ last.op = "search_devices" /\ Get(last.args, "q", "") = ""

\* The query point and radius of the request in `last`
QueryLat == Float(last.args["lat"])
QueryLng == Float(last.args["lng"])
QueryRadius ==
    IF "radius" \in DOMAIN last.args THEN Float(last.args["radius"])[1]
    ELSE IF last.op = "get_nearby_devices" THEN NearbyDefaultRadius ELSE SearchDefaultRadius

\* The rows the request in `last` searches: the caller's, of the status asked for
Searched(i) ==
    /\ store[i].user_id = find_by_username(last.user)[1]
    /\ (last.op = "get_nearby_devices" /\ Get(last.args, "status", "") \in {"lost", "found"})
         => store[i].status = last.args["status"]

\* C3: a nearby answer holds no device farther from the query point than the
\* radius, and holds every searched device with both coordinates set (and
\* not zero, so that its distance is computed) whose distance is at most the
\* radius, the distance equal to it included.
C3_WithinRadius ==
    NearbyAnswer =>
        /\ \A k \in 1..Len(last.body) :
              calculate_distance(QueryLat, QueryLng, last.body[k].device.latitude,
                                 last.body[k].device.longitude) <= QueryRadius
        /\ \A i \in DOMAIN store :
              (/\ Searched(i)
               /\ store[i].latitude # None /\ store[i].latitude[1] # 0
               /\ store[i].longitude # None /\ store[i].longitude[1] # 0
               /\ calculate_distance(QueryLat, QueryLng, store[i].latitude,
                                     store[i].longitude) <= QueryRadius)
              => \E k \in 1..Len(last.body) : last.body[k].device = store[i]

\* C3 witness: one device exactly at the radius is returned while another,
\* farther away, is not.
C3_Witness ==
    /\ NearbyAnswer
    /\ QueryRadius < Inf
    /\ \E k \in 1..Len(last.body) :
          calculate_distance(QueryLat, QueryLng, last.body[k].device.latitude,
                             last.body[k].device.longitude) = QueryRadius
    /\ \E i \in DOMAIN store :
          /\ Searched(i)
          /\ store[i].latitude # None /\ store[i].longitude # None
          /\ calculate_distance(QueryLat, QueryLng, store[i].latitude,
                                store[i].longitude) \in (QueryRadius + 1)..(Inf - 1)

\* C4: a nearby answer holds no device whose latitude or longitude is
\* absent, and such devices do not make the search fail: a query by a user
\* with numeric lat, lng and radius is answered 200.
C4_NoIncompleteLocation ==
    /\ NearbyAnswer =>
          \A k \in 1..Len(last.body) :
              /\ last.body[k].device.latitude # None
              /\ last.body[k].device.longitude # None
    /\ (/\ last.op = "get_nearby_devices"
        /\ Resolved(last)
        /\ "lat" \in DOMAIN last.args /\ Float(last.args["lat"]) # None
        /\ "lng" \in DOMAIN last.args /\ Float(last.args["lng"]) # None
        /\ "radius" \in DOMAIN last.args => Float(last.args["radius"]) # None)
       => last.code = 200

\* C4 witness: a search with an infinite radius by the owner of a device
\* without latitude and of a device that is returned.
C4_Witness ==
    /\ NearbyAnswer
    /\ QueryRadius = Inf
    /\ Len(last.body) > 0
    /\ \E i \in DOMAIN store :
          /\ Searched(i)
          /\ store[i].latitude = None \/ store[i].longitude = None

\* The request in `last` is a proximity search: get_nearby_devices, or
\* search_devices without a text query
ProximityRequest ==
    \/ last.op = "get_nearby_devices"
    \/ last.op = "search_devices" /\ Get(last.args, "q", "") = ""

\* C5: a proximity search whose radius is non-numeric, zero or negative, or
\* whose latitude or longitude is missing or non-numeric, is answered 400
\* with no device list.
C5_RadiusPositive ==
    (/\ ProximityRequest
     /\ Resolved(last)
     /\ \/ "radius" \in DOMAIN last.args /\ Float(last.args["radius"]) = None
        \/ "radius" \in DOMAIN last.args /\ Float(last.args["radius"])[1] <= 0
        \/ "lat" \notin DOMAIN last.args \/ Float(last.args["lat"]) = None
        \/ "lng" \notin DOMAIN last.args \/ Float(last.args["lng"]) = None)
    => (last.code = 400 /\ last.body = << >>)

\* C9: a nearby answer is in non-decreasing order of the distance it reports.
C9_SortedByDistance ==
    NearbyAnswer =>
        \A k \in 1..(Len(last.body) - 1) :
            last.body[k].distance <= last.body[k + 1].distance

\* C9 witness: two devices are returned, the nearer one first although it
\* is the later row of the table.
C9_Witness ==
    /\ NearbyAnswer
    /\ Len(last.body) = 2
    /\ last.body[1].distance < last.body[2].distance
    /\ last.body[1].device.id > last.body[2].device.id

(************************* zero ordinates claim *****************************)
\* The request in `last` is a direct call of calculate_distance with an
\* argument that is None or 0.0
FalsyCall ==
    /\ last.op = "calculate_distance"
    /\ \E k \in 1..4 : last.args[k] = None \/ last.args[k] = Some(0)

\* C11: calculate_distance returns +infinity whenever one of its four
\* arguments is None or 0.0; a nearby answer to a query whose latitude or
\* longitude is 0 and whose radius is finite holds no device; and no nearby
\* answer, whatever the radius, holds a device stored with latitude or
\* longitude 0.
C11_ZeroIsMissing ==
    /\ FalsyCall => last.body = <<Inf>>
    /\ NearbyAnswer =>
          /\ ((QueryLat = Some(0) \/ QueryLng = Some(0)) /\ QueryRadius < Inf)
                => last.body = << >>
          /\ \A k \in 1..Len(last.body) :
                /\ last.body[k].device.latitude # Some(0)
                /\ last.body[k].device.longitude # Some(0)

\* C11 witness: a query from latitude 0 with a finite radius is answered
\* with no device, while the caller owns a device 0.0001 degrees north of
\* the query point, well inside the radius, and a device stored with
\* latitude 0.
C11_Witness ==
    /\ NearbyAnswer
    /\ last.op = "get_nearby_devices"
    /\ QueryLat = Some(0) /\ QueryLng = Some(1)
    /\ QueryRadius = 10000
    /\ last.body = << >>
    /\ \E i \in DOMAIN store :
          /\ Searched(i)
          /\ store[i].latitude = Some(1) /\ store[i].longitude = Some(1)
    /\ \E i \in DOMAIN store :
          /\ Searched(i)
          /\ store[i].latitude = Some(0) /\ store[i].longitude = Some(1)

====
